---- MODULE Spec2Model ----
(***************************************************************************)
(* git-preflight: change-set resolution, trigger matching and trigger      *)
(* execution (cmd/git-preflight/git-preflight.go).                         *)
(*                                                                         *)
(* A Go string is a sequence of one-character strings, so that path.Base,  *)
(* strings.Contains, path.Match and sort.Strings are computed on the       *)
(* characters.  The characters in use are letters, ' ', '\t', '/', '*',    *)
(* '?', '[' and ']'; the glob alphabet has no '\\', '-' or '^'.            *)
(***************************************************************************)
EXTENDS Integers, Sequences, FiniteSets, TLC

\* ------------------------------------------------------------------ bounds
\* Most triggers in the config file of a run.
MaxTriggers == 3
\* Most triggers in a config handed to validateConfig on its own.
MaxValidated == 2
\* Most paths one change source returns.
MaxSrcLen == 2
\* Most include patterns, and most exclude patterns, of a trigger handed to match.
MaxPats == 2

\* ----------------------------------------------------------------- strings
\* Byte value order of the characters, as sort.Strings compares them.
Ord(c) ==
    CASE c = "\t" -> 9
      [] c = " " -> 32
      [] c = "*" -> 42
      [] c = "." -> 46
      [] c = "/" -> 47
      [] c = "?" -> 63
      [] c = "[" -> 91
      [] c = "]" -> 93
      [] c = "a" -> 97
      [] c = "b" -> 98
      [] c = "c" -> 99
      [] c = "d" -> 100
      [] c = "k" -> 107
      [] c = "o" -> 111
      [] c = "q" -> 113
      [] c = "x" -> 120
      [] c = "y" -> 121
      [] c = "z" -> 122

Min(S) == CHOOSE x \in S : \A y \in S : x <= y

SeqsUpTo(S, n) == UNION {[1..k -> S] : k \in 0..n}

\* strings.Contains(s, c) for a one-character c.
Contains(s, c) == \E i \in 1..Len(s) : s[i] = c

\* strings.ContainsAny(s, chars).
ContainsAny(s, chars) == \E i \in 1..Len(s) : s[i] \in chars

\* Go's string comparison a < b: bytewise lexicographic.
RECURSIVE StrLess(_, _)
StrLess(a, b) ==
    IF b = <<>> THEN FALSE
    ELSE IF a = <<>> THEN TRUE
    ELSE IF a[1] # b[1] THEN Ord(a[1]) < Ord(b[1])
    ELSE StrLess(Tail(a), Tail(b))

\* sort.Strings: the insertion of one string into a sorted slice, ...
RECURSIVE InsertSorted(_, _)
InsertSorted(s, sorted) ==
    IF sorted = <<>> THEN <<s>>
    ELSE IF StrLess(sorted[1], s) THEN <<sorted[1]>> \o InsertSorted(s, Tail(sorted))
    ELSE <<s>> \o sorted

\* ... and the sort itself.
RECURSIVE SortStrings(_)
SortStrings(sl) ==
    IF sl = <<>> THEN <<>> ELSE InsertSorted(sl[1], SortStrings(Tail(sl)))

\* path.Base.
RECURSIVE StripTrailingSlashes(_)
StripTrailingSlashes(p) ==
    IF Len(p) > 0 /\ p[Len(p)] = "/"
    THEN StripTrailingSlashes(SubSeq(p, 1, Len(p) - 1))
    ELSE p

PathBase(p) ==
    IF p = <<>> THEN <<".">>
    ELSE LET q == StripTrailingSlashes(p)
             slashes == {i \in 1..Len(q) : q[i] = "/"}
             r == IF slashes = {} THEN q
                  ELSE SubSeq(q, (CHOOSE i \in slashes : \A j \in slashes : j <= i) + 1, Len(q))
         IN  IF r = <<>> THEN <<"/">> ELSE r

\* ---------------------------------------------------------------- path.Match
\* The index of the ']' closing the class whose '[' is at i, or 0 when the class is
\* malformed: a class holds at least one character, and its first is not ']'.
ClassEnd(pat, i) ==
    IF i + 1 > Len(pat) \/ pat[i + 1] = "]" THEN 0
    ELSE LET ks == {k \in (i + 2)..Len(pat) : pat[k] = "]"}
         IN  IF ks = {} THEN 0 ELSE Min(ks)

\* Whether pat, from position i on, is a well-formed glob.
RECURSIVE WellFormedFrom(_, _)
WellFormedFrom(pat, i) ==
    IF i > Len(pat) THEN TRUE
    ELSE IF pat[i] = "["
         THEN LET e == ClassEnd(pat, i) IN e # 0 /\ WellFormedFrom(pat, e + 1)
         ELSE WellFormedFrom(pat, i + 1)

\* Whether pat from i matches name from j: '*' is any run of non-'/' characters,
\* '?' one non-'/' character, '[..]' one character of the class.
RECURSIVE GlobFrom(_, _, _, _)
GlobFrom(pat, i, name, j) ==
    IF i > Len(pat) THEN j > Len(name)
    ELSE CASE pat[i] = "*" ->
                \E k \in j..(Len(name) + 1) :
                    /\ \A m \in j..(k - 1) : name[m] # "/"
                    /\ GlobFrom(pat, i + 1, name, k)
           [] pat[i] = "?" ->
                j <= Len(name) /\ name[j] # "/" /\ GlobFrom(pat, i + 1, name, j + 1)
           [] pat[i] = "[" ->
                LET e == ClassEnd(pat, i)
                IN  /\ j <= Len(name)
                    /\ \E k \in (i + 1)..(e - 1) : pat[k] = name[j]
                    /\ GlobFrom(pat, e + 1, name, j + 1)
           [] OTHER ->
                j <= Len(name) /\ name[j] = pat[i] /\ GlobFrom(pat, i + 1, name, j + 1)

\* path.Match(pattern, name): (matched, err); err is ErrBadPattern, returned exactly
\* when the pattern is malformed, whatever the name.
PathMatch(pat, name) ==
    IF ~WellFormedFrom(pat, 1)
    THEN [matched |-> FALSE, err |-> TRUE]
    ELSE [matched |-> GlobFrom(pat, 1, name, 1), err |-> FALSE]

\* --------------------------------------------------------------------- match
\* The name an include pattern is compared with.
matchNameOf(pat, fname) == IF ~Contains(pat, "/") THEN PathBase(fname) ELSE fname

\* The exclude loop of match, from exclude k on, against the include's matchName.
RECURSIVE matchExcludes(_, _, _)
matchExcludes(excludes, k, matchName) ==
    IF k > Len(excludes) THEN [matched |-> TRUE, err |-> FALSE]
    ELSE LET r == PathMatch(excludes[k], matchName)
         IN  IF r.err THEN [matched |-> FALSE, err |-> TRUE]
             ELSE IF r.matched THEN [matched |-> FALSE, err |-> FALSE]
             ELSE matchExcludes(excludes, k + 1, matchName)

\* A match that goes on to the next include pattern when an exclude rejects the file.
RECURSIVE matchAnyIncludeFrom(_, _, _)
matchAnyIncludeFrom(tr, i, fname) ==
    IF i > Len(tr.Includes) THEN [matched |-> FALSE, err |-> FALSE]
    ELSE LET matchName == matchNameOf(tr.Includes[i], fname)
             r == PathMatch(tr.Includes[i], matchName)
             x == matchExcludes(tr.Excludes, 1, matchName)
         IN  IF r.err THEN [matched |-> FALSE, err |-> TRUE]
             ELSE IF r.matched /\ (x.err \/ x.matched) THEN x
             ELSE matchAnyIncludeFrom(tr, i + 1, fname)

\* The include loop of match, from include i on.
RECURSIVE matchFrom(_, _, _)
matchFrom(tr, i, fname) ==
    IF i > Len(tr.Includes) THEN [matched |-> FALSE, err |-> FALSE]
    ELSE LET matchName == matchNameOf(tr.Includes[i], fname)
             r == PathMatch(tr.Includes[i], matchName)
         IN  IF r.err THEN [matched |-> FALSE, err |-> TRUE]
             ELSE IF ~r.matched THEN matchFrom(tr, i + 1, fname)
             ELSE matchExcludes(tr.Excludes, 1, matchName)

\* match(tr, fname): (matched, err).
match(tr, fname) == matchFrom(tr, 1, fname)

\* ---------------------------------------------------------------- validation
InputTypeArgs == <<"a", "r", "g", "s">>

Whitespace == {" ", "\t", "\r", "\n"}

\* An error value; NoErr is Go's nil error.
Err(kind, name, pat) == [kind |-> kind, name |-> name, pat |-> pat]
NoErr == Err("nil", <<>>, <<>>)

\* The first pattern of pats, from k on, on which the trial match path.Match(pat, "")
\* returns an error; 0 when there is none.
RECURSIVE FirstBadPattern(_, _)
FirstBadPattern(pats, k) ==
    IF k > Len(pats) THEN 0
    ELSE IF PathMatch(pats[k], <<>>).err THEN k
    ELSE FirstBadPattern(pats, k + 1)

\* A validateTrigger that checks the input type before the name.
validateTriggerTypeFirst(tr) ==
    IF tr.InputType # InputTypeArgs THEN Err("input type", tr.Name, tr.InputType)
    ELSE IF tr.Name = <<>> THEN Err("empty name", <<>>, <<>>)
    ELSE IF ContainsAny(tr.Name, Whitespace) THEN Err("whitespace name", tr.Name, <<>>)
    ELSE IF FirstBadPattern(tr.Includes, 1) # 0
         THEN Err("include pattern", tr.Name, tr.Includes[FirstBadPattern(tr.Includes, 1)])
    ELSE IF FirstBadPattern(tr.Excludes, 1) # 0
         THEN Err("exclude pattern", tr.Name, tr.Excludes[FirstBadPattern(tr.Excludes, 1)])
    ELSE NoErr

\* A validateTrigger without the check of the input type.
validateTriggerNoInputType(tr) ==
    IF tr.Name = <<>> THEN Err("empty name", <<>>, <<>>)
    ELSE IF ContainsAny(tr.Name, Whitespace) THEN Err("whitespace name", tr.Name, <<>>)
    ELSE IF FirstBadPattern(tr.Includes, 1) # 0
         THEN Err("include pattern", tr.Name, tr.Includes[FirstBadPattern(tr.Includes, 1)])
    ELSE IF FirstBadPattern(tr.Excludes, 1) # 0
         THEN Err("exclude pattern", tr.Name, tr.Excludes[FirstBadPattern(tr.Excludes, 1)])
    ELSE NoErr

\* validateTrigger(tr).
validateTrigger(tr) ==
    IF tr.Name = <<>> THEN Err("empty name", <<>>, <<>>)
    ELSE IF ContainsAny(tr.Name, Whitespace) THEN Err("whitespace name", tr.Name, <<>>)
    ELSE IF tr.InputType # InputTypeArgs THEN Err("input type", tr.Name, tr.InputType)
    ELSE IF FirstBadPattern(tr.Includes, 1) # 0
         THEN Err("include pattern", tr.Name, tr.Includes[FirstBadPattern(tr.Includes, 1)])
    ELSE IF FirstBadPattern(tr.Excludes, 1) # 0
         THEN Err("exclude pattern", tr.Name, tr.Excludes[FirstBadPattern(tr.Excludes, 1)])
    ELSE NoErr

\* The loop of validateConfig from trigger i on, nameMap holding the names seen.
RECURSIVE validateFrom(_, _, _)
validateFrom(triggers, i, nameMap) ==
    IF i > Len(triggers) THEN NoErr
    ELSE IF triggers[i].Name \in nameMap THEN Err("duplicate name", triggers[i].Name, <<>>)
    ELSE LET err == validateTrigger(triggers[i])
         IN  IF err # NoErr THEN err
             ELSE validateFrom(triggers, i + 1, nameMap \cup {triggers[i].Name})

\* validateConfig(cfg); a config is its sequence of triggers.
validateConfig(triggers) == validateFrom(triggers, 1, {})

\* ---------------------------------------------------------- inputs of a run
\* Changed paths.
FileA == <<"a">>
FileDB == <<"d", "/", "b">>
RunFiles == {FileA, FileDB}

\* What a change source returns on success: a list of paths, in any order, with or
\* without repeated paths.
SourceLists == SeqsUpTo(RunFiles, MaxSrcLen)

\* Trigger names.
NameX == <<"x">>
NameY == <<"y">>
NameZ == <<"z">>
NameN == <<"n">>

Trigger(name, cmd, inputType, includes, excludes) ==
    [Name |-> name, Cmd |-> cmd, InputType |-> inputType,
     Includes |-> includes, Excludes |-> excludes]

\* Triggers of the config file: three that pass validation (one with no Cmd) and
\* three that do not (input type, name, pattern).
TrAll == Trigger(NameX, << <<"c">> >>, InputTypeArgs, << <<"*">> >>, <<>>)
TrDir == Trigger(NameY, << <<"k">>, <<"o">> >>, InputTypeArgs, << <<"d", "/", "*">> >>, <<>>)
TrNoCmd == Trigger(NameZ, <<>>, InputTypeArgs, << <<"a">> >>, <<>>)
TrBadType == Trigger(<<"q">>, << <<"c">> >>, <<"s">>, << <<"*">> >>, <<>>)
TrBadName == Trigger(<<>>, << <<"c">> >>, InputTypeArgs, << <<"*">> >>, <<>>)
TrBadPattern == Trigger(<<"k">>, << <<"c">> >>, InputTypeArgs, << <<"*">> >>, << <<"[">> >>)
RunTriggers == {TrAll, TrDir, TrNoCmd, TrBadType, TrBadName, TrBadPattern}

\* The config files readConfig may find.
Configs == SeqsUpTo(RunTriggers, MaxTriggers)

\* The positional arguments of `run`: none, one name, two names in the reverse of the
\* declaration order, a repeated name, a name with no Cmd, a name no config declares.
RequestedNames ==
    {<<>>, <<NameX>>, <<NameY, NameX>>, <<NameX, NameX>>, <<NameZ>>, <<NameX, NameN>>}

\* How cmd.Run() ends.
RunOutcomes == {"exit 0", "exit nonzero", "not started"}

\* ------------------------------------------------------------------- state
VARIABLES
    pc,              \* where runPreflight (or the function under call) stands
    dryRun,          \* --dry-run
    commitHash,      \* --commit-hash, "" when not given
    triggerNames,    \* fs.Args()
    cfg,             \* cfg.Triggers, once readConfig returned it
    committedFiles,  \* GetGitDiffChanges' result
    unstagedFiles,   \* GetGitUnstagedChanges' result
    changedFiles,    \* the changed files handed to the trigger loop
    enabledTriggers, \* the keys of enabledTriggers
    idx,             \* the position of the trigger loop in cfg.Triggers
    hasError,
    spawned,         \* the subprocesses exec.Command built and cmd.Run() ran, in order
    wouldRun,        \* the "would run trigger" lines written, in order
    exitCode,        \* the process's exit status, -1 while it runs
    fatalErr,        \* the error exitOnError ended the process with
    callArg,         \* the argument of a function called on its own
    callRet          \* and its result

vars == <<pc, dryRun, commitHash, triggerNames, cfg, committedFiles, unstagedFiles,
          changedFiles, enabledTriggers, idx, hasError, spawned, wouldRun, exitCode,
          fatalErr, callArg, callRet>>

runVars == <<dryRun, commitHash, triggerNames, cfg, committedFiles, unstagedFiles,
             changedFiles, enabledTriggers, idx, hasError, spawned, wouldRun,
             exitCode, fatalErr>>

NoCall == "none"

Blank ==
    /\ dryRun = FALSE
    /\ commitHash = <<>>
    /\ triggerNames = <<>>
    /\ cfg = <<>>
    /\ committedFiles = <<>>
    /\ unstagedFiles = <<>>
    /\ changedFiles = <<>>
    /\ enabledTriggers = {}
    /\ idx = 0
    /\ hasError = FALSE
    /\ spawned = <<>>
    /\ wouldRun = <<>>
    /\ exitCode = -1
    /\ fatalErr = NoErr

Init ==
    /\ pc = "start"
    /\ Blank
    /\ callArg = NoCall
    /\ callRet = NoCall

\* exitOnError(err) with err # nil: the process ends at once.
Fatal(err) ==
    /\ pc' = "fatal"
    /\ exitCode' = 1
    /\ fatalErr' = err

\* ------------------------------------------------------------- runPreflight
\* fs.Parse(args); triggerNames := fs.Args().
ParseFlags ==
    /\ pc = "start"
    /\ \E d \in BOOLEAN, h \in {<<>>, <<"h">>}, names \in RequestedNames :
        /\ dryRun' = d
        /\ commitHash' = h
        /\ triggerNames' = names
    /\ pc' = "readConfig"
    /\ UNCHANGED <<cfg, committedFiles, unstagedFiles, changedFiles, enabledTriggers,
                   idx, hasError, spawned, wouldRun, exitCode, fatalErr, callArg, callRet>>

\* cfg, err := readConfig(...); exitOnError(err).  The file does not open or decode,
\* or it decodes to some config, which validateConfig accepts or not.
ReadConfig ==
    /\ pc = "readConfig"
    /\ \/ Fatal(Err("decode", <<>>, <<>>)) /\ UNCHANGED cfg
       \/ \E file \in Configs :
            IF validateConfig(file) # NoErr
            THEN Fatal(validateConfig(file)) /\ UNCHANGED cfg
            ELSE /\ cfg' = file
                 /\ pc' = "changes"
                 /\ UNCHANGED <<exitCode, fatalErr>>
    /\ UNCHANGED <<dryRun, commitHash, triggerNames, committedFiles, unstagedFiles,
                   changedFiles, enabledTriggers, idx, hasError, spawned, wouldRun,
                   callArg, callRet>>

\* commitHash != "": changedFiles = GetGitCommitChanges(...), then sort.Strings.
CommitChanges ==
    /\ pc = "changes"
    /\ commitHash # <<>>
    /\ \/ Fatal(Err("change source", <<>>, <<>>)) /\ UNCHANGED changedFiles
       \/ \E res \in SourceLists :
             /\ changedFiles' = SortStrings(res)
             /\ pc' = "select"
             /\ UNCHANGED <<exitCode, fatalErr>>
    /\ UNCHANGED <<dryRun, commitHash, triggerNames, cfg, committedFiles, unstagedFiles,
                   enabledTriggers, idx, hasError, spawned, wouldRun, callArg, callRet>>

\* GetMergeBaseCommitHash.
MergeBase ==
    /\ pc = "changes"
    /\ commitHash = <<>>
    /\ \E ok \in BOOLEAN :
        IF ok
        THEN pc' = "diff" /\ UNCHANGED <<exitCode, fatalErr>>
        ELSE Fatal(Err("change source", <<>>, <<>>))
    /\ UNCHANGED <<dryRun, commitHash, triggerNames, cfg, committedFiles, unstagedFiles,
                   changedFiles, enabledTriggers, idx, hasError, spawned, wouldRun,
                   callArg, callRet>>

\* GetGitDiffChanges.
DiffChanges ==
    /\ pc = "diff"
    /\ \/ Fatal(Err("change source", <<>>, <<>>)) /\ UNCHANGED committedFiles
       \/ \E res \in SourceLists :
             /\ committedFiles' = res
             /\ pc' = "unstaged"
             /\ UNCHANGED <<exitCode, fatalErr>>
    /\ UNCHANGED <<dryRun, commitHash, triggerNames, cfg, unstagedFiles, changedFiles,
                   enabledTriggers, idx, hasError, spawned, wouldRun, callArg, callRet>>

\* GetGitUnstagedChanges.
UnstagedChanges ==
    /\ pc = "unstaged"
    /\ \/ Fatal(Err("change source", <<>>, <<>>)) /\ UNCHANGED unstagedFiles
       \/ \E res \in SourceLists :
             /\ unstagedFiles' = res
             /\ pc' = "staged"
             /\ UNCHANGED <<exitCode, fatalErr>>
    /\ UNCHANGED <<dryRun, commitHash, triggerNames, cfg, committedFiles, changedFiles,
                   enabledTriggers, idx, hasError, spawned, wouldRun, callArg, callRet>>

Range(sl) == {sl[i] : i \in 1..Len(sl)}

\* stringSet2Slice: the keys of the map, in whatever order the map yields them.
stringSet2Slice(ss) ==
    {sl \in [1..Cardinality(ss) -> ss] : Range(sl) = ss}

\* GetGitStagedChanges, the union of the three lists in changedFileSet,
\* stringSet2Slice and sort.Strings; the three lists are locals of the else block.
StagedChanges ==
    /\ pc = "staged"
    /\ \/ Fatal(Err("change source", <<>>, <<>>))
          /\ UNCHANGED <<changedFiles, committedFiles, unstagedFiles>>
       \/ \E res \in SourceLists :
             /\ LET changedFileSet ==
                        Range(committedFiles) \cup Range(unstagedFiles) \cup Range(res)
                IN  \E sl \in stringSet2Slice(changedFileSet) :
                        changedFiles' = SortStrings(sl)
             /\ committedFiles' = <<>>
             /\ unstagedFiles' = <<>>
             /\ pc' = "select"
             /\ UNCHANGED <<exitCode, fatalErr>>
    /\ UNCHANGED <<dryRun, commitHash, triggerNames, cfg, enabledTriggers, idx, hasError,
                   spawned, wouldRun, callArg, callRet>>

\* The first name of names, from k on, that no trigger of the config has; 0 if none.
RECURSIVE FirstUnknown(_, _, _)
FirstUnknown(names, k, known) ==
    IF k > Len(names) THEN 0
    ELSE IF names[k] \notin known THEN k
    ELSE FirstUnknown(names, k + 1, known)

\* cfgTriggerMap, allTriggerNames, the default to every trigger, enabledTriggers.
SelectTriggers ==
    /\ pc = "select"
    /\ LET allTriggerNames == [i \in 1..Len(cfg) |-> cfg[i].Name]
           names == IF Len(triggerNames) = 0 THEN allTriggerNames ELSE triggerNames
           bad == FirstUnknown(names, 1, Range(allTriggerNames))
       IN  IF bad # 0
           THEN Fatal(Err("no such trigger", names[bad], <<>>))
                /\ UNCHANGED <<enabledTriggers, idx, hasError>>
           ELSE /\ enabledTriggers' = Range(names)
                /\ idx' = 1
                /\ hasError' = FALSE
                /\ pc' = "loop"
                /\ UNCHANGED <<exitCode, fatalErr>>
    /\ UNCHANGED <<dryRun, commitHash, triggerNames, cfg, committedFiles, unstagedFiles,
                   changedFiles, spawned, wouldRun, callArg, callRet>>

\* The loop over changedFiles that fills fnames, from file k on: the files of the
\* list that match the trigger, in the list's order, or the first error of match.
RECURSIVE matchFiles(_, _, _)
matchFiles(tr, files, k) ==
    IF k > Len(files) THEN [fnames |-> <<>>, err |-> FALSE]
    ELSE LET m == match(tr, files[k])
             rest == matchFiles(tr, files, k + 1)
         IN  IF m.err THEN [fnames |-> <<>>, err |-> TRUE]
             ELSE IF rest.err THEN rest
             ELSE IF m.matched THEN [fnames |-> <<files[k]>> \o rest.fnames, err |-> FALSE]
             ELSE rest

\* A dry run that prints the line and then runs the command all the same.
PrintWouldRunNoContinue(cmdArgs) ==
    /\ wouldRun' = Append(wouldRun, [trigger |-> idx, cmdArgs |-> cmdArgs])
    /\ spawned' = Append(spawned,
                         [trigger |-> idx, name |-> cmdArgs[1],
                          args |-> Tail(cmdArgs), status |-> "running"])
    /\ pc' = "wait"
    /\ UNCHANGED <<idx, exitCode, fatalErr>>

\* if dryRun: the "would run trigger" line, and continue.
PrintWouldRun(cmdArgs) ==
    /\ wouldRun' = Append(wouldRun, [trigger |-> idx, cmdArgs |-> cmdArgs])
    /\ idx' = idx + 1
    /\ UNCHANGED <<pc, spawned, exitCode, fatalErr>>

\* A start of the subprocess that does not wait for it (cmd.Start() for cmd.Run()).
StartSubprocessNoWait(cmdArgs) ==
    /\ spawned' = Append(spawned,
                         [trigger |-> idx, name |-> cmdArgs[1],
                          args |-> Tail(cmdArgs), status |-> "running"])
    /\ idx' = idx + 1
    /\ UNCHANGED <<pc, wouldRun, exitCode, fatalErr>>

\* exec.Command(cmdArgs[0], cmdArgs[1:]...) and cmd.Run(), which blocks until the
\* subprocess has exited.
StartSubprocess(cmdArgs) ==
    /\ spawned' = Append(spawned,
                         [trigger |-> idx, name |-> cmdArgs[1],
                          args |-> Tail(cmdArgs), status |-> "running"])
    /\ pc' = "wait"
    /\ UNCHANGED <<idx, wouldRun, exitCode, fatalErr>>

\* One iteration of the trigger loop, up to the start of the subprocess.
EvalTrigger ==
    /\ pc = "loop"
    /\ idx <= Len(cfg)
    /\ LET tr == cfg[idx]
           found == matchFiles(tr, changedFiles, 1)
           cmdArgs == tr.Cmd \o found.fnames
       IN  IF tr.Name \notin enabledTriggers
           THEN idx' = idx + 1 /\ UNCHANGED <<pc, spawned, wouldRun, exitCode, fatalErr>>
           ELSE IF found.err
           THEN Fatal(Err("match", tr.Name, <<>>)) /\ UNCHANGED <<idx, spawned, wouldRun>>
           ELSE IF Len(found.fnames) = 0
           THEN idx' = idx + 1 /\ UNCHANGED <<pc, spawned, wouldRun, exitCode, fatalErr>>
           ELSE IF tr.InputType # InputTypeArgs
           THEN Fatal(Err("input type", tr.Name, tr.InputType))
                /\ UNCHANGED <<idx, spawned, wouldRun>>
           ELSE IF dryRun
           THEN PrintWouldRun(cmdArgs)
           ELSE StartSubprocess(cmdArgs)
    /\ UNCHANGED <<dryRun, commitHash, triggerNames, cfg, committedFiles, unstagedFiles,
                   changedFiles, enabledTriggers, hasError, callArg, callRet>>

\* A cmd.Run() whose error ends the trigger loop.
SubprocessExitStopOnFailure ==
    /\ pc = "wait"
    /\ \E outcome \in RunOutcomes :
        /\ spawned' = [spawned EXCEPT ![Len(spawned)].status = outcome]
        /\ hasError' = (hasError \/ outcome # "exit 0")
        /\ idx' = IF outcome # "exit 0" THEN Len(cfg) + 1 ELSE idx + 1
    /\ pc' = "loop"
    /\ UNCHANGED <<dryRun, commitHash, triggerNames, cfg, committedFiles, unstagedFiles,
                   changedFiles, enabledTriggers, wouldRun, exitCode, fatalErr,
                   callArg, callRet>>

\* A cmd.Run() whose result overwrites hasError.
SubprocessExitLastWins ==
    /\ pc = "wait"
    /\ \E outcome \in RunOutcomes :
        /\ spawned' = [spawned EXCEPT ![Len(spawned)].status = outcome]
        /\ hasError' = (outcome # "exit 0")
    /\ idx' = idx + 1
    /\ pc' = "loop"
    /\ UNCHANGED <<dryRun, commitHash, triggerNames, cfg, committedFiles, unstagedFiles,
                   changedFiles, enabledTriggers, wouldRun, exitCode, fatalErr,
                   callArg, callRet>>

\* cmd.Run() returns: the subprocess has exited, or could not be started.
SubprocessExit ==
    /\ pc = "wait"
    /\ \E outcome \in RunOutcomes :
        /\ spawned' = [spawned EXCEPT ![Len(spawned)].status = outcome]
        /\ hasError' = (hasError \/ outcome # "exit 0")
    /\ idx' = idx + 1
    /\ pc' = "loop"
    /\ UNCHANGED <<dryRun, commitHash, triggerNames, cfg, committedFiles, unstagedFiles,
                   changedFiles, enabledTriggers, wouldRun, exitCode, fatalErr,
                   callArg, callRet>>

\* The loop is over: os.Exit(1) if hasError, else runPreflight and main return.
Finish ==
    /\ pc = "loop"
    /\ idx > Len(cfg)
    /\ pc' = "done"
    /\ exitCode' = IF hasError THEN 1 ELSE 0
    /\ UNCHANGED <<dryRun, commitHash, triggerNames, cfg, committedFiles, unstagedFiles,
                   changedFiles, enabledTriggers, idx, hasError, spawned, wouldRun,
                   fatalErr, callArg, callRet>>

Next ==
    \/ ParseFlags
    \/ ReadConfig
    \/ CommitChanges
    \/ MergeBase
    \/ DiffChanges
    \/ UnstagedChanges
    \/ StagedChanges
    \/ SelectTriggers
    \/ EvalTrigger
    \/ SubprocessExit
    \/ Finish

Spec == Init /\ [][Next]_vars

\* ------------------------------------------------- match, called on its own
PatA == <<"a">>
PatStar == <<"*">>
PatDirStar == <<"d", "/", "*">>
PatDirA == <<"d", "/", "a">>
PatBad == <<"[">>
MatchPatterns == {PatA, PatStar, PatDirStar, PatDirA, PatBad}

MatchFiles == {<<"a">>, <<"b">>, <<"d", "/", "a">>, <<"d", "/", "b">>}

MatchTriggers ==
    {Trigger(NameX, << <<"c">> >>, InputTypeArgs, inc, exc) :
        inc \in SeqsUpTo(MatchPatterns, MaxPats), exc \in SeqsUpTo(MatchPatterns, MaxPats)}

InitMatch ==
    /\ pc = "call match"
    /\ Blank
    /\ callArg \in [tr : MatchTriggers, fname : MatchFiles]
    /\ callRet = NoCall

CallMatch ==
    /\ pc = "call match"
    /\ callRet' = match(callArg.tr, callArg.fname)
    /\ pc' = "returned match"
    /\ UNCHANGED <<runVars, callArg>>

SpecMatch == InitMatch /\ [][CallMatch]_vars

\* ---------------------------------------- validateConfig, called on its own
NameWithSpace == <<"x", " ">>

ValidateTriggers ==
    {Trigger(n, << <<"c">> >>, t, inc, exc) :
        n \in {NameX, NameY, <<>>, NameWithSpace},
        t \in {InputTypeArgs, <<"s">>},
        inc \in {<<PatStar>>, <<PatStar, PatBad>>},
        exc \in {<<>>, <<PatBad>>}}

ValidateConfigs == SeqsUpTo(ValidateTriggers, MaxValidated)

InitValidate ==
    /\ pc = "call validateConfig"
    /\ Blank
    /\ callArg \in ValidateConfigs
    /\ callRet = NoCall

CallValidate ==
    /\ pc = "call validateConfig"
    /\ callRet' = validateConfig(callArg)
    /\ pc' = "returned validateConfig"
    /\ UNCHANGED <<runVars, callArg>>

SpecValidate == InitValidate /\ [][CallValidate]_vars

\* =================================================================== claims
\* Vocabulary of the claims about a run.
InLoop == pc \in {"loop", "wait", "done"}

\* The triggers whose iteration of the trigger loop has begun.
Evaluated ==
    IF pc = "loop" THEN 1..(idx - 1)
    ELSE IF pc = "wait" THEN 1..idx
    ELSE IF pc = "done" THEN 1..Len(cfg)
    ELSE {}

\* Trigger i is eligible: no name was requested, or its name was.
Eligible(i) ==
    triggerNames = <<>> \/ \E k \in 1..Len(triggerNames) : triggerNames[k] = cfg[i].Name

\* Trigger i has at least one matching changed file.
HasMatch(i) == \E k \in 1..Len(changedFiles) : match(cfg[i], changedFiles[k]).matched

ShouldRun == {i \in Evaluated : Eligible(i) /\ HasMatch(i)}

\* The changed files that match trigger i, in the order of changedFiles.
MatchedFiles(i) ==
    LET Test(f) == match(cfg[i], f).matched IN SelectSeq(changedFiles, Test)

Failed(status) == status \in {"exit nonzero", "not started"}

StrictlyIncreasing(seq) == \A k, l \in 1..Len(seq) : k < l => seq[k] < seq[l]

\* C1: in every run that reaches the trigger loop, with --commit-hash or without,
\* changedFiles is lexicographically sorted and holds each path once, whatever the
\* change sources returned.
C1_ChangedFilesSortedUnique ==
    InLoop =>
        \A k, l \in 1..Len(changedFiles) :
            k < l => StrLess(changedFiles[k], changedFiles[l])

\* C2: in a live run, the triggers a subprocess was spawned for are exactly the
\* eligible triggers with a matching changed file among those the loop has come to,
\* each spawned once, whatever the earlier subprocesses returned.
C2_SpawnedExactlyEligibleMatching ==
    (InLoop /\ ~dryRun) =>
        /\ {spawned[k].trigger : k \in 1..Len(spawned)} = ShouldRun
        /\ Len(spawned) = Cardinality(ShouldRun)

C2_Witness ==
    /\ pc = "done"
    /\ ~dryRun
    /\ Len(spawned) = 2
    /\ Failed(spawned[1].status)
    /\ \E i \in 1..Len(cfg) : ~Eligible(i) \/ ~HasMatch(i)

\* C3: subprocesses are spawned in the order the config declares their triggers,
\* whatever the order of the requested names, and no subprocess is started while an
\* earlier one has not exited.
C3_DeclarationOrderSequential ==
    /\ StrictlyIncreasing([k \in 1..Len(spawned) |-> spawned[k].trigger])
    /\ \A k \in 1..(Len(spawned) - 1) : spawned[k].status # "running"

C3_Witness ==
    /\ pc = "done"
    /\ Len(spawned) = 2
    /\ Len(triggerNames) = 2
    /\ triggerNames[1] = cfg[spawned[2].trigger].Name
    /\ triggerNames[2] = cfg[spawned[1].trigger].Name

\* C4: a run that ends without a fatal error exits 1 if and only if some spawned
\* subprocess failed, exits 0 otherwise, and exits 0 in every dry run.
C4_ExitCode ==
    pc = "done" =>
        /\ exitCode = 1 <=> \E k \in 1..Len(spawned) : Failed(spawned[k].status)
        /\ exitCode = 0 <=> \A k \in 1..Len(spawned) : spawned[k].status = "exit 0"
        /\ dryRun => exitCode = 0

C4_Witness ==
    /\ pc = "done"
    /\ exitCode = 1
    /\ Len(spawned) = 2
    /\ Failed(spawned[1].status)
    /\ spawned[2].status = "exit 0"

\* C5: when a run ends with a fatal error, no subprocess has been spawned in it.
C5_FatalBeforeAnySpawn ==
    pc = "fatal" => spawned = <<>>

\* A requested name is unknown while another requested name is a trigger with
\* matching changed files.
C5_Witness ==
    /\ pc = "fatal"
    /\ fatalErr.kind = "no such trigger"
    /\ Len(triggerNames) = 2
    /\ \E i \in 1..Len(cfg) : cfg[i].Name = triggerNames[1] /\ HasMatch(i)

\* C6: every spawned subprocess has the first token of its trigger's Cmd as its
\* executable and, as its arguments, the other tokens of Cmd followed by the changed
\* files that match the trigger, in sorted order; a trigger with no Cmd is never run.
C6_CmdThenMatchedFiles ==
    \A k \in 1..Len(spawned) :
        LET tr == cfg[spawned[k].trigger]
        IN  /\ tr.Cmd # <<>>
            /\ spawned[k].name = tr.Cmd[1]
            /\ spawned[k].args = Tail(tr.Cmd) \o MatchedFiles(spawned[k].trigger)

\* C8: a dry run spawns no subprocess, and writes one "would run" line for each
\* eligible trigger with a matching changed file, in declaration order.
C8_DryRunSpawnsNothing ==
    dryRun =>
        /\ spawned = <<>>
        /\ InLoop =>
            /\ StrictlyIncreasing([k \in 1..Len(wouldRun) |-> wouldRun[k].trigger])
            /\ {wouldRun[k].trigger : k \in 1..Len(wouldRun)} = ShouldRun

C8_Witness ==
    /\ pc = "done"
    /\ dryRun
    /\ Len(wouldRun) = 2
    /\ spawned = <<>>

\* Vocabulary of the claims about match and validateConfig.
WellFormed(pat) == WellFormedFrom(pat, 1)

AllWellFormed(pats) == \A k \in 1..Len(pats) : WellFormed(pats[k])

\* The glob pat matches the name that the basename-vs-fullpath rule gives pat itself.
MatchesOwnName(pat, fname) ==
    GlobFrom(pat, 1, IF Contains(pat, "/") THEN fname ELSE PathBase(fname), 1)

\* The include patterns of tr that match fname.
IncludeHits(tr, fname) ==
    {i \in 1..Len(tr.Includes) : MatchesOwnName(tr.Includes[i], fname)}

MatchReturned ==
    /\ pc = "returned match"
    /\ AllWellFormed(callArg.tr.Includes)
    /\ AllWellFormed(callArg.tr.Excludes)

C10_EveryPatternOwnName ==
    MatchReturned =>
        LET tr == callArg.tr
        IN  callRet.matched <=>
              /\ IncludeHits(tr, callArg.fname) # {}
              /\ \A k \in 1..Len(tr.Excludes) : ~MatchesOwnName(tr.Excludes[k], callArg.fname)

\* What is wrong with trigger i of a config, in the order duplicate name, empty name,
\* whitespace in the name, input type, include patterns, exclude patterns.
Violation(triggers, i) ==
    LET tr == triggers[i]
        badInc == {k \in 1..Len(tr.Includes) : ~WellFormed(tr.Includes[k])}
        badExc == {k \in 1..Len(tr.Excludes) : ~WellFormed(tr.Excludes[k])}
    IN  IF \E j \in 1..(i - 1) : triggers[j].Name = tr.Name
        THEN Err("duplicate name", tr.Name, <<>>)
        ELSE IF tr.Name = <<>> THEN Err("empty name", <<>>, <<>>)
        ELSE IF \E k \in 1..Len(tr.Name) : tr.Name[k] \in Whitespace
        THEN Err("whitespace name", tr.Name, <<>>)
        ELSE IF tr.InputType # <<"a", "r", "g", "s">>
        THEN Err("input type", tr.Name, tr.InputType)
        ELSE IF badInc # {} THEN Err("include pattern", tr.Name, tr.Includes[Min(badInc)])
        ELSE IF badExc # {} THEN Err("exclude pattern", tr.Name, tr.Excludes[Min(badExc)])
        ELSE NoErr

\* C7: validateConfig succeeds if and only if no trigger has a violation, and
\* otherwise returns the first violation of the first trigger that has one.
C7_FirstViolation ==
    pc = "returned validateConfig" =>
        LET bad == {i \in 1..Len(callArg) : Violation(callArg, i) # NoErr}
        IN  /\ callRet = NoErr <=> bad = {}
            /\ bad # {} => callRet = Violation(callArg, Min(bad))

\* The second trigger repeats the first one's name and has a wrong input type and
\* malformed patterns as well: the duplicate name is what is reported.
C7_Witness ==
    /\ pc = "returned validateConfig"
    /\ Len(callArg) = 2
    /\ callArg[2].Name = callArg[1].Name
    /\ callArg[2].InputType # InputTypeArgs
    /\ ~AllWellFormed(callArg[2].Excludes)
    /\ callRet.kind = "duplicate name"

====
